---- MODULE Spec2Model ----
(***************************************************************************)
(* Model of BusinessMetricsEngine (src/src/tools/business_metrics_engine.py)*)
(* calculate, _filter_by_time and list_metrics over a sales data source.    *)
(*                                                                         *)
(* Text is modelled structurally: a returned string is a record holding    *)
(* the marker it starts with and the values interpolated into it.  Money   *)
(* amounts are whole numbers (an integer revenue column); the growth rate  *)
(* is carried as the two-decimal text Python's "+.2f" produces, i.e. a     *)
(* sign and a number of hundredths, or inf / nan.                          *)
(***************************************************************************)
EXTENDS Integers, Sequences, FiniteSets, TLC

(* ------------------------------ bounds --------------------------------- *)
MaxRows == 3

(* ------------------------------ values --------------------------------- *)
None == "<None>"
OK == "OK"
FAIL == "FAIL"

month_order ==
  <<"January", "February", "March", "April", "May", "June",
    "July", "August", "September", "October", "November", "December">>

months == month_order

RECURSIVE SeqToSet(_)
SeqToSet(s) == IF s = <<>> THEN {} ELSE {Head(s)} \cup SeqToSet(Tail(s))

InSeq(x, s) == \E i \in 1..Len(s) : s[i] = x

(* ----------------------- the data source (CSV rows) -------------------- *)
Dates == {<<2023, 1>>, <<2023, 4>>, <<2024, 1>>}
Products == {"Laptop", "Mouse"}

RegionOf(d) == IF d[1] = 2023 THEN "North" ELSE "South"
ChannelOf(d) == IF d[2] = 1 THEN "Online" ELSE "Retail"
CustomerOf(d, p) == IF p = "Laptop" THEN "CUST1000" ELSE IF d[1] = 2023 THEN "CUST1000" ELSE "CUST2000"

\* A row as generate_data.py writes it: the calendar columns are derived
\* from the date (dt.year, dt.month, dt.quarter, strftime('%B')).
Txn(d, p, rev) ==
  [date |-> [parseable |-> TRUE, y |-> d[1], m |-> d[2]],
   product |-> p, region |-> RegionOf(d), channel |-> ChannelOf(d),
   customer_id |-> CustomerOf(d, p),
   revenue |-> [numeric |-> TRUE, v |-> rev],
   year |-> d[1], month |-> d[2], quarter |-> ((d[2] - 1) \div 3) + 1,
   month_name |-> month_order[d[2]]]

GoodTxns ==
  {Txn(d, "Laptop", r) : d \in Dates, r \in {100, 150}}
    \cup {Txn(d, "Laptop", 0) : d \in Dates \ {<<2023, 1>>}}
    \cup {Txn(d, "Mouse", 100) : d \in Dates \ {<<2023, 4>>}}

\* Malformed rows: a date cell pandas cannot parse, a revenue cell that is
\* not a number.
BadDateTxn ==
  [Txn(<<2024, 1>>, "Mouse", 150) EXCEPT !.date = [parseable |-> FALSE, y |-> 0, m |-> 0]]
BadRevenueTxn ==
  [Txn(<<2024, 1>>, "Mouse", 150) EXCEPT !.revenue = [numeric |-> FALSE, v |-> 0]]

Transactions == GoodTxns \cup {BadDateTxn, BadRevenueTxn}

Tables == {t \in SUBSET Transactions : Cardinality(t) <= MaxRows}

Columns == {"date", "product", "region", "channel", "customer_id", "revenue",
            "year", "month", "quarter", "month_name"}

\* the order pandas' groupby(sort=True) gives the string keys of the model
KeyOrder == <<"April", "January", "Laptop", "Mouse", "North", "Online", "Retail", "South">>

KeyIndex(k) == CHOOSE i \in 1..Len(KeyOrder) : KeyOrder[i] = k

(* ---------------------------- the catalogue ---------------------------- *)
METRIC_DEFINITIONS_init ==
  << [name |-> "total_revenue", formula |-> "sum", column |-> "revenue",
      group_by |-> None, description |-> "Sum of all revenue"],
     [name |-> "average_order_value", formula |-> "mean", column |-> "revenue",
      group_by |-> None, description |-> "Average revenue per transaction"],
     [name |-> "total_transactions", formula |-> "count", column |-> "transaction_id",
      group_by |-> None, description |-> "Total number of transactions"],
     [name |-> "customer_count", formula |-> "unique_count", column |-> "customer_id",
      group_by |-> None, description |-> "Number of unique customers"],
     [name |-> "top_products", formula |-> "group_sum_ranked", column |-> "revenue",
      group_by |-> "product", description |-> "Products ranked by revenue"],
     [name |-> "top_regions", formula |-> "group_sum_ranked", column |-> "revenue",
      group_by |-> "region", description |-> "Regions ranked by revenue"],
     [name |-> "revenue_by_channel", formula |-> "group_sum", column |-> "revenue",
      group_by |-> "channel", description |-> "Revenue by sales channel"],
     [name |-> "monthly_revenue", formula |-> "time_series", column |-> "revenue",
      group_by |-> "month_name", description |-> "Revenue by month"],
     [name |-> "growth_rate", formula |-> "percentage_change", column |-> "revenue",
      group_by |-> None, description |-> "Month-over-month growth rate"] >>

\* dict.keys(): the names in insertion order
Keys(defs) == [i \in 1..Len(defs) |-> defs[i].name]

\* metric_name in METRIC_DEFINITIONS
HasMetric(defs, metric_name) == \E i \in 1..Len(defs) : defs[i].name = metric_name

\* METRIC_DEFINITIONS[metric_name]
Lookup(defs, metric_name) ==
  defs[CHOOSE i \in 1..Len(defs) : defs[i].name = metric_name]

(* --------------------- Python string operations ------------------------ *)
\* The period strings callers pass, with the characters they are made of.
\* "^2" stands for the one character U+00B2 (superscript two) and "ar2",
\* "ar0", "ar4" for the Arabic-Indic digits U+0662, U+0660, U+0664.
Chars(s) ==
  CASE s = "all" -> <<"a", "l", "l">>
    [] s = "Q1" -> <<"Q", "1">>
    [] s = "Q2" -> <<"Q", "2">>
    [] s = "Q5" -> <<"Q", "5">>
    [] s = "q1" -> <<"q", "1">>
    [] s = "January" -> <<"J", "a", "n", "u", "a", "r", "y">>
    [] s = "April" -> <<"A", "p", "r", "i", "l">>
    [] s = "May" -> <<"M", "a", "y">>
    [] s = "january" -> <<"j", "a", "n", "u", "a", "r", "y">>
    [] s = "2023" -> <<"2", "0", "2", "3">>
    [] s = "2024" -> <<"2", "0", "2", "4">>
    [] s = "2025" -> <<"2", "0", "2", "5">>
    [] s = "02024" -> <<"0", "2", "0", "2", "4">>
    [] s = "ar2024" -> <<"ar2", "ar0", "ar2", "ar4">>
    [] s = "^2" -> <<"^2">>
    [] s = "1" -> <<"1">>
    [] s = "last week" -> <<"l", "a", "s", "t", " ", "w", "e", "e", "k">>
    [] s = "" -> <<>>

DecimalValue(c) ==
  CASE c = "0" -> 0 [] c = "1" -> 1 [] c = "2" -> 2 [] c = "3" -> 3
    [] c = "4" -> 4 [] c = "5" -> 5 [] c = "6" -> 6 [] c = "7" -> 7
    [] c = "8" -> 8 [] c = "9" -> 9
    [] c = "ar0" -> 0 [] c = "ar2" -> 2 [] c = "ar4" -> 4

DecimalChars == {"0", "1", "2", "3", "4", "5", "6", "7", "8", "9", "ar0", "ar2", "ar4"}

\* characters with Numeric_Type Digit or Decimal: what str.isdigit accepts
DigitChars == DecimalChars \cup {"^2"}

\* str.isdigit(): non-empty and every character is a digit character
isdigit(s) == Len(Chars(s)) > 0 /\ \A i \in 1..Len(Chars(s)) : Chars(s)[i] \in DigitChars

RECURSIVE ParseDecimal(_, _)
ParseDecimal(cs, acc) ==
  IF cs = <<>> THEN acc ELSE ParseDecimal(Tail(cs), acc * 10 + DecimalValue(Head(cs)))

\* int(s): the number, or ValueError when some character is not a decimal digit
int(s) ==
  IF Len(Chars(s)) > 0 /\ \A i \in 1..Len(Chars(s)) : Chars(s)[i] \in DecimalChars
  THEN [raised |-> FALSE, value |-> ParseDecimal(Chars(s), 0)]
  ELSE [raised |-> TRUE, exc |-> "ValueError"]

(* --------------------------- _filter_by_time --------------------------- *)
\* Returns [raised |-> FALSE, df |-> rows] or [raised |-> TRUE, exc |-> ...].
_filter_by_time(df, time_period) ==
  IF time_period \in {"Q1", "Q2", "Q3", "Q4"}
  THEN LET quarter_num == DecimalValue(Chars(time_period)[2])
       IN [raised |-> FALSE, df |-> {r \in df : r.quarter = quarter_num}]
  ELSE IF InSeq(time_period, months)
  THEN [raised |-> FALSE, df |-> {r \in df : r.month_name = time_period}]
  ELSE IF isdigit(time_period)
  THEN LET n == int(time_period)
       IN IF n.raised THEN [raised |-> TRUE, exc |-> n.exc]
          ELSE [raised |-> FALSE, df |-> {r \in df : r.year = n.value}]
  ELSE [raised |-> FALSE, df |-> df]

(* ------------------------- pandas aggregation -------------------------- *)
Min(a, b) == IF a <= b THEN a ELSE b
Abs(a) == IF a < 0 THEN -a ELSE a

\* (mutation: .count() in place of .sum())
SumCol_count(df, column) == Cardinality(df)
\* df[column].sum() over an integer column
RECURSIVE SumCol(_, _)
SumCol(df, column) ==
  IF df = {} THEN 0
  ELSE LET r == CHOOSE x \in df : TRUE
       IN r[column].v + SumCol(df \ {r}, column)

\* n / d rounded to the nearest integer, halves to even: the digits that
\* ":.2f" prints when n / d is a number of hundredths (d > 0)
RoundDiv(n, d) ==
  LET q == Abs(n) \div d
      r == Abs(n) % d
      up == (2 * r > d) \/ (2 * r = d /\ q % 2 = 1)
      a == IF up THEN q + 1 ELSE q
  IN IF n < 0 THEN -a ELSE a

\* Series.head(n)
head(s, n) ==
  IF n >= 0 THEN SubSeq(s, 1, Min(n, Len(s)))
  ELSE SubSeq(s, 1, IF Len(s) + n > 0 THEN Len(s) + n ELSE 0)

\* df.groupby(group_col)[column].sum(): one (name, value) entry per key,
\* keys in sorted order
GroupKeys(df, group_col) == {r[group_col] : r \in df}

groupby_sum(df, group_col, column) ==
  LET keys == GroupKeys(df, group_col)
      ordered == SelectSeq(KeyOrder, LAMBDA k : k \in keys)
  IN [i \in 1..Len(ordered) |->
        [name |-> ordered[i],
         value |-> SumCol({r \in df : r[group_col] = ordered[i]}, column)]]

\* Series.sort_values(ascending=False).  Equal values keep their incoming
\* order under a stable argsort and come out reversed otherwise; which of
\* the two the default kind="quicksort" gives is a property of the numpy
\* build (tie).
\* (mutation: ascending=True)
sort_values_asc(s, tie) ==
  LET Before(j, i) ==
        \/ s[j].value < s[i].value
        \/ /\ s[j].value = s[i].value
           /\ IF tie = "stable" THEN j < i ELSE j > i
      pos(i) == 1 + Cardinality({j \in 1..Len(s) : Before(j, i)})
  IN [p \in 1..Len(s) |-> s[CHOOSE i \in 1..Len(s) : pos(i) = p]]
sort_values_desc(s, tie) ==
  LET Before(j, i) ==
        \/ s[j].value > s[i].value
        \/ /\ s[j].value = s[i].value
           /\ IF tie = "stable" THEN j < i ELSE j > i
      pos(i) == 1 + Cardinality({j \in 1..Len(s) : Before(j, i)})
  IN [p \in 1..Len(s) |-> s[CHOOSE i \in 1..Len(s) : pos(i) = p]]

\* monthly.reindex([m for m in month_order if m in monthly.index])
\* (mutation: no reindex, the groupby's alphabetical key order is kept)
reindex_months_unordered(monthly) == monthly
reindex_months(monthly) ==
  LET present == {monthly[i].name : i \in 1..Len(monthly)}
      kept == SelectSeq(month_order, LAMBDA m : m \in present)
  IN [i \in 1..Len(kept) |->
        monthly[CHOOSE j \in 1..Len(monthly) : monthly[j].name = kept[i]]]

\* df.groupby(df['date'].dt.to_period('M'))[column].sum().sort_index():
\* one entry per calendar year-month, in chronological order
\* (mutation: the month alone, so that the same month of two years is one period)
PeriodOf_monthOnly(r) == <<0, r.date.m>>
PeriodOf(r) == <<r.date.y, r.date.m>>
Ordinal(p) == p[1] * 12 + p[2]

monthly_by_period(df, column) ==
  LET periods == {PeriodOf(r) : r \in df}
      pos(p) == 1 + Cardinality({q \in periods : Ordinal(q) < Ordinal(p)})
  IN [i \in 1..Cardinality(periods) |->
        LET p == CHOOSE q \in periods : pos(q) = i
        IN [period |-> p, value |-> SumCol({r \in df : PeriodOf(r) = p}, column)]]

\* ((latest - previous) / previous) * 100 on numpy numbers, as "+.2f"
\* prints it: division by zero gives inf or nan, never an exception
growth_text(latest, previous) ==
  IF previous = 0
  THEN IF latest = 0 THEN [kind |-> "nan", sign |-> "+", hundredths |-> 0]
       ELSE [kind |-> "inf", sign |-> IF latest > 0 THEN "+" ELSE "-", hundredths |-> 0]
  ELSE LET neg == (latest - previous < 0) # (previous < 0)
           h == RoundDiv(Abs(latest - previous) * 10000, Abs(previous))
       IN [kind |-> "finite",
           sign |-> IF neg /\ latest # previous THEN "-" ELSE "+",
           hundredths |-> h]

\* (mutation: "growth >= 0" in place of "growth > 0")
growth_positive_geq(latest, previous) ==
  IF previous = 0 THEN latest > 0
  ELSE (latest - previous) * previous >= 0
\* growth > 0
growth_positive(latest, previous) ==
  IF previous = 0 THEN latest > 0
  ELSE (latest - previous) * previous > 0

(* ------------------------- the returned text --------------------------- *)
\* Every string calculate returns, by the marker it begins with and the
\* values formatted into it.
MetricNotFound(metric_name, available) ==
  [marker |-> FAIL, kind |-> "MetricNotFound", metric |-> metric_name, available |-> available]
DataFileNotFound(path) ==
  [marker |-> FAIL, kind |-> "DataFileNotFound", path |-> path]
NoDataForPeriod(time_period) ==
  [marker |-> FAIL, kind |-> "NoDataForPeriod", period |-> time_period]
RequiresGroupBy == [marker |-> FAIL, kind |-> "RequiresGroupBy"]
NeedTwoMonths == [marker |-> FAIL, kind |-> "NeedTwoMonths"]
UnknownFormula(formula) == [marker |-> FAIL, kind |-> "UnknownFormula", formula |-> formula]
\* an exception that leaves calculate: no text is returned
Raised(exc) == [marker |-> "", kind |-> "raised", exc |-> exc]
\* (mutation: "except KeyError" in place of "except Exception")
ErrorCalculating_onlyKeyError(exc) ==
  IF exc = "KeyError" THEN [marker |-> FAIL, kind |-> "Error", exc |-> exc] ELSE Raised(exc)
\* the except clause: "Error calculating metric: {str(e)}"
ErrorCalculating(exc) == [marker |-> FAIL, kind |-> "Error", exc |-> exc]

\* "${result:,.2f}": an amount in hundredths, or nan
Currency(metric_name, cents, nan) ==
  [marker |-> OK, kind |-> "currency", metric |-> metric_name, cents |-> cents, nan |-> nan]
Count(metric_name, n) ==
  [marker |-> OK, kind |-> "count", metric |-> metric_name, value |-> n]
UniqueCount(metric_name, n, column) ==
  [marker |-> OK, kind |-> "unique", metric |-> metric_name, value |-> n, column |-> column]
\* "{rank}. {name}: ${value:,.2f}" lines under a "(Top {limit})" header
Ranking(metric_name, limit, entries) ==
  [marker |-> OK, kind |-> "ranking", metric |-> metric_name, limit |-> limit,
   entries |-> [i \in 1..Len(entries) |->
                  [rank |-> i, name |-> entries[i].name, cents |-> entries[i].value * 100]]]
\* "- {name}: ${value:,.2f}" lines
Listing(metric_name, entries) ==
  [marker |-> OK, kind |-> "listing", metric |-> metric_name,
   entries |-> [i \in 1..Len(entries) |->
                  [name |-> entries[i].name, cents |-> entries[i].value * 100]]]
Growth(metric_name, latest, previous, growth, trend) ==
  [marker |-> OK, kind |-> "growth", metric |-> metric_name,
   latest_cents |-> latest * 100, previous_cents |-> previous * 100,
   growth |-> growth, trend |-> trend]

(* ------------------------------ calculate ------------------------------ *)
\* group_by or metric_def.get('group_by')
Truthy(x) == x # None /\ x # ""
\* (mutation: metric_def.get('group_by') or group_by)
GroupCol_defaultFirst(group_by, metric_def) ==
  IF Truthy(metric_def.group_by) THEN metric_def.group_by ELSE group_by
GroupCol(group_by, metric_def) == IF Truthy(group_by) THEN group_by ELSE metric_def.group_by

\* The formula branches (lines 126-198).  numeric: the revenue column was
\* read as numbers (no cell of the file is non-numeric); otherwise it holds
\* strings, their "sum" is a concatenation, and formatting or arithmetic on
\* it raises.
Aggregate(metric_name, metric_def, df, numeric, group_by, limit, tie) ==
  LET formula == metric_def.formula
      column == metric_def.column
  IN
  IF formula = "sum"
  THEN IF ~numeric THEN ErrorCalculating("ValueError")
       ELSE Currency(metric_name, SumCol(df, column) * 100, FALSE)
  ELSE IF formula = "mean"
  THEN IF ~numeric THEN ErrorCalculating("TypeError")
       ELSE IF df = {} THEN Currency(metric_name, 0, TRUE)
       ELSE Currency(metric_name, RoundDiv(SumCol(df, column) * 100, Cardinality(df)), FALSE)
  ELSE IF formula = "count"
  THEN Count(metric_name, Cardinality(df))
  ELSE IF formula = "unique_count"
  THEN UniqueCount(metric_name, Cardinality({r[column] : r \in df}), column)
  ELSE IF formula = "group_sum_ranked"
  THEN LET group_col == GroupCol(group_by, metric_def)
       IN IF ~Truthy(group_col) THEN RequiresGroupBy
          ELSE IF group_col \notin Columns THEN ErrorCalculating("KeyError")
          ELSE LET result == head(sort_values_desc(groupby_sum(df, group_col, column), tie), limit)
               IN IF ~numeric /\ Len(result) > 0 THEN ErrorCalculating("ValueError")
                  ELSE Ranking(metric_name, limit, result)
  ELSE IF formula = "group_sum"
  THEN LET group_col == GroupCol(group_by, metric_def)
       IN IF group_col = None THEN ErrorCalculating("TypeError")
          ELSE IF group_col \notin Columns THEN ErrorCalculating("KeyError")
          ELSE LET result == sort_values_desc(groupby_sum(df, group_col, column), tie)
               IN IF ~numeric /\ Len(result) > 0 THEN ErrorCalculating("ValueError")
                  ELSE Listing(metric_name, result)
  ELSE IF formula = "time_series"
  THEN LET monthly == reindex_months(groupby_sum(df, "month_name", column))
       IN IF ~numeric /\ Len(monthly) > 0 THEN ErrorCalculating("ValueError")
          ELSE Listing(metric_name, monthly)
  ELSE IF formula = "percentage_change"
  THEN LET monthly == monthly_by_period(df, column)
       IN IF Len(monthly) < 2 THEN NeedTwoMonths
          ELSE IF ~numeric THEN ErrorCalculating("TypeError")
          ELSE LET latest == monthly[Len(monthly)].value
                   previous == monthly[Len(monthly) - 1].value
               IN Growth(metric_name, latest, previous, growth_text(latest, previous),
                         IF growth_positive(latest, previous) THEN "Positive growth"
                         ELSE "Negative growth")
  ELSE UnknownFormula(formula)

\* The rows the formula branch receives (lines 111-118): the parsed file,
\* narrowed by the time filter unless the period is "all".
\* [raised |-> TRUE, exc] when pd.to_datetime or the filter raises.
\* (mutation: the filtered frame is dropped, the whole file is aggregated)
LoadAndFilter_unfiltered(file, time_period) ==
  IF \E r \in file.rows : ~r.date.parseable
  THEN [raised |-> TRUE, exc |-> "ValueError"]
  ELSE IF time_period # "all" /\ _filter_by_time(file.rows, time_period).raised
  THEN _filter_by_time(file.rows, time_period)
  ELSE [raised |-> FALSE, df |-> file.rows]
LoadAndFilter(file, time_period) ==
  IF \E r \in file.rows : ~r.date.parseable
  THEN [raised |-> TRUE, exc |-> "ValueError"]
  ELSE IF time_period # "all" THEN _filter_by_time(file.rows, time_period)
  ELSE [raised |-> FALSE, df |-> file.rows]

\* lines 115-117: the empty check sits inside "if time_period != 'all'"
\* (mutation: the check is left out)
NoDataGuard_missing(time_period, df) == FALSE
NoDataGuard(time_period, df) == time_period # "all" /\ Cardinality(df) = 0

\* (mutation: the formula branch runs first, and its own failure is
\* returned ahead of the empty check)
Compute_aggregateFirst(defs, file, metric_name, time_period, group_by, limit, tie) ==
  LET loaded == LoadAndFilter(file, time_period)
  IN IF loaded.raised THEN ErrorCalculating(loaded.exc)
     ELSE LET r == Aggregate(metric_name, Lookup(defs, metric_name), loaded.df,
                             \A x \in file.rows : x.revenue.numeric, group_by, limit, tie)
          IN IF r.kind \in {"RequiresGroupBy", "NeedTwoMonths"} THEN r
             ELSE IF NoDataGuard(time_period, loaded.df) THEN NoDataForPeriod(time_period)
             ELSE r
\* lines 111-198: load, filter, dispatch on the formula
Compute(defs, file, metric_name, time_period, group_by, limit, tie) ==
  LET loaded == LoadAndFilter(file, time_period)
  IN IF loaded.raised THEN ErrorCalculating(loaded.exc)
     ELSE IF NoDataGuard(time_period, loaded.df)
     THEN NoDataForPeriod(time_period)
     ELSE Aggregate(metric_name, Lookup(defs, metric_name), loaded.df,
                    \A r \in file.rows : r.revenue.numeric, group_by, limit, tie)

\* (mutation: the file is looked for before the metric name is checked)
calculate_fileCheckFirst(defs, file, metric_name, dataframe_path, time_period, group_by, limit, tie) ==
  IF ~file.exists
  THEN DataFileNotFound(dataframe_path)
  ELSE IF ~HasMetric(defs, metric_name)
  THEN MetricNotFound(metric_name, Keys(defs))
  ELSE Compute(defs, file, metric_name, time_period, group_by, limit, tie)
calculate(defs, file, metric_name, dataframe_path, time_period, group_by, limit, tie) ==
  IF ~HasMetric(defs, metric_name)
  THEN MetricNotFound(metric_name, Keys(defs))
  ELSE IF ~file.exists
  THEN DataFileNotFound(dataframe_path)
  ELSE Compute(defs, file, metric_name, time_period, group_by, limit, tie)

\* list_metrics(): "- {name}: {description}" per catalogue entry
list_metrics(defs) ==
  [marker |-> "", kind |-> "metrics",
   entries |-> [i \in 1..Len(defs) |-> [name |-> defs[i].name, description |-> defs[i].description]]]

(* ------------------------------- state --------------------------------- *)
VARIABLES
  METRIC_DEFINITIONS, \* the engine's catalogue
  file,               \* the data source at dataframe_path: exists, rows
  tie,                \* the numpy build's order for equal sort keys
  pc,                 \* "idle" or "returned" (a call has returned its text)
  call,               \* the arguments of the call that returned
  result,             \* the text it returned
  df,                 \* _filter_by_time alone: its transaction set,
  time_period,        \*   its period string,
  filtered,           \*   and what it returned
  callers             \* concurrent callers of one engine: each one's position,
                      \*   arguments, the file contents its call read, its text

vars == <<METRIC_DEFINITIONS, file, tie, pc, call, result, df, time_period, filtered, callers>>
engineVars == <<METRIC_DEFINITIONS, file, tie, pc, call, result, callers>>
filterVars == <<df, time_period, filtered>>

DataPath == "data/sample_sales_data.csv"
NoFile == [exists |-> FALSE, rows |-> {}]
CsvFile(rows) == [exists |-> TRUE, rows |-> rows]

MetricNames == SeqToSet(Keys(METRIC_DEFINITIONS_init)) \cup {"profit_margin"}
Periods == {"all", "Q1", "January", "2024", "^2", "last week"}
GroupBys == {None, "region", "bogus"}
Limits == {1, 2, 5}

NoCall == [op |-> "none"]
NoResult == [marker |-> "", kind |-> "none"]
NotApplied == [raised |-> FALSE, df |-> {}, applied |-> FALSE]

Callers == {"a", "b"}
IdleCaller == [pc |-> "idle", call |-> NoCall, seen |-> NoFile, result |-> NoResult]

Init ==
  /\ METRIC_DEFINITIONS = METRIC_DEFINITIONS_init
  /\ file \in {NoFile} \cup {CsvFile(t) : t \in Tables}
  /\ tie \in {"stable", "reversed"}
  /\ pc = "idle"
  /\ call = NoCall
  /\ result = NoResult
  /\ df = {} /\ time_period = "all" /\ filtered = NotApplied
  /\ callers = [c \in Callers |-> IdleCaller]

\* (mutation: metric_def['group_by'] = group_by, the override is written into
\* the catalogue entry the lookup returned)
Calculate_storesOverride(metric_name, period, group_by, limit) ==
  /\ pc = "idle"
  /\ call' = [op |-> "calculate", metric_name |-> metric_name, dataframe_path |-> DataPath,
              time_period |-> period, group_by |-> group_by, limit |-> limit]
  /\ result' = calculate(METRIC_DEFINITIONS, file, metric_name, DataPath, period,
                         group_by, limit, tie)
  /\ pc' = "returned"
  /\ METRIC_DEFINITIONS' =
       [i \in 1..Len(METRIC_DEFINITIONS) |->
          IF METRIC_DEFINITIONS[i].name = metric_name /\ Truthy(group_by)
          THEN [METRIC_DEFINITIONS[i] EXCEPT !.group_by = group_by]
          ELSE METRIC_DEFINITIONS[i]]
  /\ UNCHANGED <<file, tie, filterVars, callers>>
\* tool.calculate(metric_name, time_period=..., group_by=..., limit=...)
Calculate(metric_name, period, group_by, limit) ==
  /\ pc = "idle"
  /\ call' = [op |-> "calculate", metric_name |-> metric_name, dataframe_path |-> DataPath,
              time_period |-> period, group_by |-> group_by, limit |-> limit]
  /\ result' = calculate(METRIC_DEFINITIONS, file, metric_name, DataPath, period,
                         group_by, limit, tie)
  /\ pc' = "returned"
  /\ UNCHANGED <<METRIC_DEFINITIONS, file, tie, filterVars, callers>>

\* tool.list_metrics()
ListMetrics ==
  /\ pc = "idle"
  /\ call' = [op |-> "list_metrics"]
  /\ result' = list_metrics(METRIC_DEFINITIONS)
  /\ pc' = "returned"
  /\ UNCHANGED <<METRIC_DEFINITIONS, file, tie, filterVars, callers>>

\* the caller takes the returned text; the engine keeps nothing of the call
Return ==
  /\ pc = "returned"
  /\ pc' = "idle"
  /\ call' = NoCall
  /\ result' = NoResult
  /\ UNCHANGED <<METRIC_DEFINITIONS, file, tie, filterVars, callers>>

\* the data source gains a row between two calls (df.to_csv by its producer)
AppendRow(t) ==
  /\ pc = "idle"
  /\ file.exists
  /\ t \notin file.rows
  /\ Cardinality(file.rows) < MaxRows
  /\ file' = CsvFile(file.rows \cup {t})
  /\ UNCHANGED <<METRIC_DEFINITIONS, tie, pc, call, result, filterVars, callers>>

Next ==
  \/ \E m \in MetricNames, p \in Periods, g \in GroupBys, k \in Limits : Calculate(m, p, g, k)
  \/ ListMetrics
  \/ Return
  \/ \E t \in Transactions : AppendRow(t)

Spec == Init /\ [][Next]_vars

(* --------------- _filter_by_time as a function of its inputs ----------- *)
FilterPeriods ==
  {"all", "Q1", "Q2", "Q5", "q1", "January", "April", "May", "january", "2023", "2024",
   "2025", "02024", "ar2024", "^2", "1", "last week", ""}

FilterInit ==
  /\ METRIC_DEFINITIONS = METRIC_DEFINITIONS_init
  /\ file = NoFile /\ tie = "stable" /\ pc = "idle" /\ call = NoCall /\ result = NoResult
  /\ df \in {t \in Tables : BadDateTxn \notin t}
  /\ time_period \in FilterPeriods
  /\ filtered = NotApplied
  /\ callers = [c \in Callers |-> IdleCaller]

ApplyFilter ==
  /\ ~filtered.applied
  /\ filtered' = [applied |-> TRUE] @@ _filter_by_time(df, time_period)
  /\ UNCHANGED <<engineVars, df, time_period>>

FilterNext == ApplyFilter

FilterSpec == FilterInit /\ [][FilterNext]_vars

(* ------------- several callers of one engine, a changing file ---------- *)
\* Calls from two threads on one engine object, while the producer of the
\* data source appends rows.  A call reads the file once (lines 108-111) and
\* works on its own frame from then on.
SessionRows ==
  {Txn(<<2023, 4>>, "Laptop", 100), Txn(<<2024, 1>>, "Laptop", 150),
   Txn(<<2024, 1>>, "Mouse", 100), Txn(<<2023, 4>>, "Laptop", 0)}
SessionMetrics == {"total_revenue", "growth_rate", "top_products", "profit_margin"}
SessionPeriods == {"all", "Q1"}

SessionInit ==
  /\ METRIC_DEFINITIONS = METRIC_DEFINITIONS_init
  /\ file \in {NoFile, CsvFile({})}
  /\ tie \in {"stable", "reversed"}
  /\ pc = "idle" /\ call = NoCall /\ result = NoResult
  /\ df = {} /\ time_period = "all" /\ filtered = NotApplied
  /\ callers = [c \in Callers |-> IdleCaller]

\* caller c enters calculate; the file is read as it is now
Begin(c, metric_name, period) ==
  /\ callers[c].pc = "idle"
  /\ callers' = [callers EXCEPT ![c] =
       [pc |-> "running",
        call |-> [op |-> "calculate", metric_name |-> metric_name, dataframe_path |-> DataPath,
                  time_period |-> period, group_by |-> None, limit |-> 5],
        seen |-> file, result |-> NoResult]]
  /\ UNCHANGED <<METRIC_DEFINITIONS, file, tie, pc, call, result, filterVars>>

\* (mutation: results are memoised by the arguments, as functools.lru_cache
\* on calculate would: a text another call returned for the same arguments
\* is handed out again)
Finish_memoised(c) ==
  /\ callers[c].pc = "running"
  /\ LET a == callers[c].call
         hits == {d \in Callers \ {c} : callers[d].pc = "returned" /\ callers[d].call = a}
     IN callers' = [callers EXCEPT ![c].pc = "returned",
                      ![c].result =
                         IF hits # {} THEN callers[CHOOSE d \in hits : TRUE].result
                         ELSE calculate(METRIC_DEFINITIONS, callers[c].seen, a.metric_name,
                                        a.dataframe_path, a.time_period, a.group_by, a.limit, tie)]
  /\ UNCHANGED <<METRIC_DEFINITIONS, file, tie, pc, call, result, filterVars>>
\* caller c's call computes its text from the frame it read and returns
Finish(c) ==
  /\ callers[c].pc = "running"
  /\ LET a == callers[c].call
     IN callers' = [callers EXCEPT ![c].pc = "returned",
                      ![c].result =
                         calculate(METRIC_DEFINITIONS, callers[c].seen, a.metric_name,
                                   a.dataframe_path, a.time_period, a.group_by, a.limit, tie)]
  /\ UNCHANGED <<METRIC_DEFINITIONS, file, tie, pc, call, result, filterVars>>

\* caller c takes its text
Receive(c) ==
  /\ callers[c].pc = "returned"
  /\ callers' = [callers EXCEPT ![c] = IdleCaller]
  /\ UNCHANGED <<METRIC_DEFINITIONS, file, tie, pc, call, result, filterVars>>

\* the data source gains a row at any moment
SessionAppend(t) ==
  /\ file.exists
  /\ t \notin file.rows
  /\ Cardinality(file.rows) < MaxRows
  /\ file' = CsvFile(file.rows \cup {t})
  /\ UNCHANGED <<METRIC_DEFINITIONS, tie, pc, call, result, filterVars, callers>>

SessionNext ==
  \/ \E c \in Callers, m \in SessionMetrics, p \in SessionPeriods : Begin(c, m, p)
  \/ \E c \in Callers : Finish(c)
  \/ \E c \in Callers : Receive(c)
  \/ \E t \in SessionRows : SessionAppend(t)

SessionSpec == SessionInit /\ [][SessionNext]_vars

(* ======================= properties of the engine ====================== *)
\* The vocabulary of the properties, stated on the call and the data source
\* and not through calculate's own steps.
NineNames ==
  <<"total_revenue", "average_order_value", "total_transactions", "customer_count",
    "top_products", "top_regions", "revenue_by_channel", "monthly_revenue", "growth_rate">>

Called == pc = "returned" /\ call.op = "calculate"
Known == InSeq(call.metric_name, NineNames)
\* the file is there and every date cell parses
Parsed == file.exists /\ \A r \in file.rows : r.date.parseable
NumericRevenue == \A r \in file.rows : r.revenue.numeric
\* what the time-filter step of the call yields
FilterOutcome ==
  IF call.time_period = "all" THEN [raised |-> FALSE, df |-> file.rows]
  ELSE _filter_by_time(file.rows, call.time_period)
\* the call got as far as a filtered transaction set
Filtered == Called /\ Known /\ Parsed /\ ~FilterOutcome.raised
Rows == FilterOutcome.df

RECURSIVE Total(_)
Total(rows) ==
  IF rows = {} THEN 0
  ELSE LET r == CHOOSE x \in rows : TRUE IN r.revenue.v + Total(rows \ {r})

\* calendar year-months of the filtered rows, as month counts
YM(r) == r.date.y * 12 + r.date.m
YMs == {YM(r) : r \in Rows}
MaxOf(S) == CHOOSE x \in S : \A y \in S : y <= x
LastYM == MaxOf(YMs)
PrevYM == MaxOf(YMs \ {LastYM})
LatestSum == Total({r \in Rows : YM(r) = LastYM})
PreviousSum == Total({r \in Rows : YM(r) = PrevYM})

MonthIndex(m) == CHOOSE i \in 1..12 : month_order[i] = m

\* C1: an unknown metric name yields the not-found failure naming the
\* requested metric and listing all nine valid names, whatever the data
\* source (missing or present), period, group_by and limit are.
C1_UnknownMetricListsAll ==
  (Called /\ ~Known) =>
    /\ result.marker = FAIL
    /\ result.kind = "MetricNotFound"
    /\ result.metric = call.metric_name
    /\ result.available = NineNames

C1_Witness ==
  /\ Called /\ call.metric_name = "profit_margin" /\ ~file.exists
  /\ call.time_period = "Q1" /\ call.group_by = "bogus"
  /\ result.kind = "MetricNotFound"

\* C2: whenever the filtered transaction set is empty, the call returns a
\* failure, for every metric: no success result is computed over zero rows.
C2_EmptyNeverSucceeds ==
  (Filtered /\ Rows = {}) => result.marker = FAIL

\* C3: growth_rate with a previous period that sums to zero returns a
\* failure, never a success carrying an infinite or undefined growth.
C3_ZeroPreviousFails ==
  (Filtered /\ call.metric_name = "growth_rate" /\ NumericRevenue
     /\ Cardinality(YMs) >= 2 /\ PreviousSum = 0)
    => result.marker = FAIL

\* C4: a period other than "all" for which the filter returns no row yields
\* the no-data-for-period failure naming that period, for every catalogue
\* metric; nothing is aggregated.
C4_EmptyPeriodReported ==
  (Filtered /\ call.time_period # "all" /\ Rows = {}) =>
    /\ result.marker = FAIL
    /\ result.kind = "NoDataForPeriod"
    /\ result.period = call.time_period

C4_Witness ==
  /\ Called /\ call.metric_name = "growth_rate" /\ call.time_period = "Q1"
  /\ Parsed /\ Cardinality(file.rows) = MaxRows /\ Rows = {}
  /\ result.kind = "NoDataForPeriod"

\* The filter policy as stated: the digits of an all-digit period read as a
\* number (superscript two reads as 2).
DigitOf(c) == IF c = "^2" THEN 2 ELSE DecimalValue(c)
RECURSIVE NumberOf(_, _)
NumberOf(cs, acc) == IF cs = <<>> THEN acc ELSE NumberOf(Tail(cs), acc * 10 + DigitOf(Head(cs)))
PolicyRows(rows, p) ==
  IF p = "all" THEN rows
  ELSE IF p \in {"Q1", "Q2", "Q3", "Q4"}
  THEN {r \in rows : r.quarter = DigitOf(Chars(p)[2])}
  ELSE IF InSeq(p, month_order) THEN {r \in rows : r.month_name = p}
  ELSE IF isdigit(p) THEN {r \in rows : r.year = NumberOf(Chars(p), 0)}
  ELSE rows

\* C5: the time filter returns, for every transaction set and period string:
\* the input for "all"; the rows of the quarter for Q1..Q4; the rows of the
\* month for a capitalised month name; the rows of the year for an all-digit
\* string; the input for anything else. It returns a subset of the input in
\* every case.
C5_FilterFollowsPolicy ==
  filtered.applied =>
    /\ ~filtered.raised
    /\ filtered.df = PolicyRows(df, time_period)
    /\ filtered.df \subseteq df

\* C6: growth_rate over at least two distinct year-months reports the sums of
\* the chronologically last and second-to-last year-month as latest and
\* previous, and (latest - previous) / previous * 100 to two decimals with
\* its sign (where the quotient is defined): [100, 150] gives +50.00 and
\* [150, 100] gives -33.33.
C6_GrowthOfLastTwoPeriods ==
  (Filtered /\ call.metric_name = "growth_rate" /\ NumericRevenue /\ Cardinality(YMs) >= 2) =>
    /\ result.marker = OK
    /\ result.kind = "growth"
    /\ result.latest_cents = 100 * LatestSum
    /\ result.previous_cents = 100 * PreviousSum
    /\ PreviousSum # 0 =>
         LET g == result.growth
             signed == IF g.sign = "-" THEN -g.hundredths ELSE g.hundredths
         IN /\ g.kind = "finite"
            /\ 2 * Abs(signed * PreviousSum - (LatestSum - PreviousSum) * 10000) <= Abs(PreviousSum)
            /\ (g.sign = "-") = ((LatestSum - PreviousSum) * PreviousSum < 0)
    /\ (PreviousSum = 100 /\ LatestSum = 150) =>
         (result.growth.sign = "+" /\ result.growth.hundredths = 5000)
    /\ (PreviousSum = 150 /\ LatestSum = 100) =>
         (result.growth.sign = "-" /\ result.growth.hundredths = 3333)

\* January 2023, April 2023 and January 2024 are three periods: the last two
\* sum to 150 and 100
C6_Witness ==
  /\ Called /\ call.metric_name = "growth_rate" /\ call.time_period = "all"
  /\ {YM(r) : r \in file.rows} = {2023 * 12 + 1, 2023 * 12 + 4, 2024 * 12 + 1}
  /\ result.kind = "growth"
  /\ result.previous_cents = 15000 /\ result.latest_cents = 10000
  /\ result.growth = [kind |-> "finite", sign |-> "-", hundredths |-> 3333]

\* C7: growth_rate over a non-empty filtered set with fewer than two distinct
\* year-months returns the insufficient-periods failure and no growth value.
C7_OnePeriodIsInsufficient ==
  (Filtered /\ call.metric_name = "growth_rate" /\ Rows # {} /\ Cardinality(YMs) < 2) =>
    result = [marker |-> FAIL, kind |-> "NeedTwoMonths"]

\* a single-year file holding January and April, filtered to January
C7_Witness ==
  /\ Called /\ call.metric_name = "growth_rate" /\ call.time_period = "January"
  /\ {YM(r) : r \in file.rows} = {2023 * 12 + 1, 2023 * 12 + 4}
  /\ Cardinality(Rows) = 2
  /\ result.kind = "NeedTwoMonths"

\* the group key of a ranked call, the order of equal sums, a group's sum,
\* and the unranked group_sum output for the same grouping
RankGroup == IF call.group_by = None THEN Lookup(METRIC_DEFINITIONS_init, call.metric_name).group_by
             ELSE call.group_by
TieFirst(a, b) == IF tie = "stable" THEN KeyIndex(a) < KeyIndex(b) ELSE KeyIndex(a) > KeyIndex(b)
GroupTotal(g) == Total({r \in Rows : r[RankGroup] = g})
FullGroupSum ==
  calculate(METRIC_DEFINITIONS, file, "revenue_by_channel", DataPath, call.time_period,
            RankGroup, call.limit, tie)

\* C8: for top_products and top_regions and a positive limit k the ranking
\* has min(k, number of groups) entries numbered 1..n, in descending order of
\* summed value with equal sums in the sort's fixed order; each entry is a
\* group with its sum, as in the group_sum output for the same grouping; no
\* group left out sums to more than an entry; with k = 1 the entry is a
\* highest-revenue group.
C8_RankingIsTopK ==
  (Filtered /\ call.metric_name \in {"top_products", "top_regions"} /\ NumericRevenue
     /\ RankGroup \in Columns /\ ~(call.time_period # "all" /\ Rows = {})) =>
    LET e == result.entries
        groups == {r[RankGroup] : r \in Rows}
    IN /\ result.marker = OK
       /\ result.kind = "ranking"
       /\ Len(e) = Min(call.limit, Cardinality(groups))
       /\ \A i \in 1..Len(e) :
            /\ e[i].rank = i
            /\ e[i].name \in groups
            /\ e[i].cents = 100 * GroupTotal(e[i].name)
            /\ \E j \in 1..Len(FullGroupSum.entries) :
                 FullGroupSum.entries[j] = [name |-> e[i].name, cents |-> e[i].cents]
            /\ \A g \in groups \ {e[j].name : j \in 1..Len(e)} :
                 100 * GroupTotal(g) <= e[i].cents
       /\ \A i, j \in 1..Len(e) :
            i < j => \/ e[i].cents > e[j].cents
                     \/ e[i].cents = e[j].cents /\ TieFirst(e[i].name, e[j].name)
       /\ (call.limit = 1 /\ groups # {}) =>
            \A g \in groups : 100 * GroupTotal(g) <= e[1].cents

\* two products, the lexically later one ahead, cut to one entry
C8_Witness ==
  /\ Called /\ call.metric_name = "top_products" /\ call.limit = 1 /\ call.group_by = None
  /\ result.kind = "ranking"
  /\ {r.product : r \in Rows} = {"Laptop", "Mouse"}
  /\ Len(result.entries) = 1
  /\ result.entries[1] = [rank |-> 1, name |-> "Mouse", cents |-> 20000]

\* C9: the monthly_revenue output lists exactly the month names present in
\* the filtered set, once each, in January..December order, each with the
\* sum of the revenue of the rows of that month name.
C9_MonthSeriesInCalendarOrder ==
  (Filtered /\ call.metric_name = "monthly_revenue" /\ NumericRevenue
     /\ ~(call.time_period # "all" /\ Rows = {})) =>
    LET e == result.entries
    IN /\ result.marker = OK
       /\ result.kind = "listing"
       /\ {e[i].name : i \in 1..Len(e)} = {r.month_name : r \in Rows}
       /\ \A i, j \in 1..Len(e) : i < j => MonthIndex(e[i].name) < MonthIndex(e[j].name)
       /\ \A i \in 1..Len(e) :
            e[i].cents = 100 * Total({r \in Rows : r.month_name = e[i].name})

\* January of two years and April: two entries, January first
C9_Witness ==
  /\ Filtered /\ call.metric_name = "monthly_revenue"
  /\ {YM(r) : r \in Rows} = {2023 * 12 + 1, 2023 * 12 + 4, 2024 * 12 + 1}
  /\ result.kind = "listing"
  /\ Len(result.entries) = 2
  /\ result.entries[1].name = "January" /\ result.entries[1].cents = 25000

\* C10: every call of calculate returns a text that begins with the success
\* or the failure marker; no exception leaves calculate.
C10_AlwaysMarkedText ==
  Called => (result.marker \in {OK, FAIL} /\ result.kind # "raised")

\* an unparseable date, a non-numeric revenue, an unknown column and a digit
\* that is no decimal each end in the failure text
C10_Witness ==
  /\ Called /\ result.marker = FAIL /\ result.kind = "Error"
  /\ \/ BadDateTxn \in file.rows /\ result.exc = "ValueError"
     \/ call.time_period = "^2"
     \/ ~NumericRevenue /\ result.exc = "TypeError"

\* C11: over a non-empty filtered set total_revenue reports the sum of the
\* revenue of the rows the filter kept, and average_order_value that sum
\* divided by the number of those rows (as the two-decimal amount nearest to
\* the quotient).
C11_SumAndMean ==
  (Filtered /\ NumericRevenue /\ Rows # {}) =>
    /\ call.metric_name = "total_revenue" =>
         result = [marker |-> OK, kind |-> "currency", metric |-> "total_revenue",
                   cents |-> 100 * Total(Rows), nan |-> FALSE]
    /\ call.metric_name = "average_order_value" =>
         /\ result.marker = OK /\ result.kind = "currency" /\ ~result.nan
         /\ 2 * Abs(result.cents * Cardinality(Rows) - 100 * Total(Rows)) <= Cardinality(Rows)

\* three rows of which the January filter keeps two: 100 and 150, mean 125.00
C11_Witness ==
  /\ Filtered /\ call.metric_name = "average_order_value" /\ call.time_period = "January"
  /\ Cardinality(file.rows) = 3 /\ Cardinality(Rows) = 2
  /\ result.kind = "currency" /\ result.cents = 12500

\* the catalogue as documented: name, aggregation kind, target column,
\* default group
CatalogueTable ==
  << <<"total_revenue", "sum", "revenue", None>>,
     <<"average_order_value", "mean", "revenue", None>>,
     <<"total_transactions", "count", "transaction_id", None>>,
     <<"customer_count", "unique_count", "customer_id", None>>,
     <<"top_products", "group_sum_ranked", "revenue", "product">>,
     <<"top_regions", "group_sum_ranked", "revenue", "region">>,
     <<"revenue_by_channel", "group_sum", "revenue", "channel">>,
     <<"monthly_revenue", "time_series", "revenue", "month_name">>,
     <<"growth_rate", "percentage_change", "revenue", None>> >>

\* C12: after any sequence of calculate and list_metrics calls, successful
\* or failing, the catalogue holds exactly the nine built-in entries, each
\* with its original aggregation kind, target column and default group.
C12_CatalogueUnchanged ==
  /\ Len(METRIC_DEFINITIONS) = 9
  /\ \A i \in 1..9 :
       <<METRIC_DEFINITIONS[i].name, METRIC_DEFINITIONS[i].formula,
         METRIC_DEFINITIONS[i].column, METRIC_DEFINITIONS[i].group_by>> = CatalogueTable[i]

\* a ranked call with a group_by override has returned its ranking
C12_Witness ==
  /\ Called /\ call.metric_name = "top_products" /\ call.group_by = "region"
  /\ result.kind = "ranking" /\ Len(result.entries) = 2
  /\ C12_CatalogueUnchanged

\* C13: in any interleaving of calls on one engine, each call returns what
\* it would return run alone on the data source as it was when the call read
\* it: nothing of another call is reused, so two calls with the same
\* arguments around a change of the file differ as the file does (for
\* total_revenue: each reports the sum of the rows it read).
C13_EachCallOnItsOwn ==
  \A c \in Callers :
    callers[c].pc = "returned" =>
      LET a == callers[c].call
          seen == callers[c].seen
      IN /\ callers[c].result =
              calculate(METRIC_DEFINITIONS_init, seen, a.metric_name, a.dataframe_path,
                        a.time_period, a.group_by, a.limit, tie)
         /\ (a.metric_name = "total_revenue" /\ a.time_period = "all" /\ seen.exists) =>
              callers[c].result.cents = 100 * Total(seen.rows)
         /\ \A d \in Callers :
              (callers[d].pc = "returned" /\ callers[d].call = a /\ callers[d].seen = seen)
                => callers[d].result = callers[c].result

\* two total_revenue calls with the same arguments, a row appended between
\* them: both have returned, with different sums
C13_Witness ==
  /\ callers["a"].pc = "returned" /\ callers["b"].pc = "returned"
  /\ callers["a"].call = callers["b"].call
  /\ callers["a"].call.metric_name = "total_revenue"
  /\ callers["a"].call.time_period = "all"
  /\ callers["a"].seen.exists /\ callers["b"].seen.exists
  /\ callers["a"].seen.rows # callers["b"].seen.rows
  /\ callers["b"].seen = file
  /\ callers["a"].result.cents = 10000 /\ callers["b"].result.cents = 25000

\* the catalogue's default group of the called metric, as the table gives it
DefaultGroup ==
  LET i == CHOOSE j \in 1..9 : CatalogueTable[j][1] = call.metric_name
  IN CatalogueTable[i][4]
GroupedMetrics == {"top_products", "top_regions", "revenue_by_channel"}
\* the call reached its formula branch
Aggregated == Filtered /\ ~(call.time_period # "all" /\ Rows = {})

\* C14: a grouped metric partitions by the caller's group_by when one is
\* given and by the catalogue default otherwise: a given key that is no
\* column fails (the default is not fallen back on), a key that is a column
\* yields that column's groups with their sums; the group-dimension-required
\* failure is returned exactly when neither is present.
C14_GroupKeyPrecedence ==
  (Aggregated /\ call.metric_name \in GroupedMetrics) =>
    LET G == IF call.group_by # None THEN call.group_by ELSE DefaultGroup
    IN /\ (result.kind = "RequiresGroupBy") = (G = None)
       /\ (G # None /\ G \notin Columns) =>
            result = [marker |-> FAIL, kind |-> "Error", exc |-> "KeyError"]
       /\ (G \in Columns /\ NumericRevenue) =>
            LET e == result.entries
                groups == {r[G] : r \in Rows}
            IN /\ result.marker = OK
               /\ {e[i].name : i \in 1..Len(e)} \subseteq groups
               /\ call.metric_name = "revenue_by_channel" =>
                    ({e[i].name : i \in 1..Len(e)} = groups /\ Len(e) = Cardinality(groups))
               /\ \A i \in 1..Len(e) :
                    e[i].cents = 100 * Total({r \in Rows : r[G] = e[i].name})

\* revenue_by_channel, whose default is channel, asked by region over rows
\* of one channel and two regions
C14_Witness ==
  /\ Called /\ call.metric_name = "revenue_by_channel" /\ call.group_by = "region"
  /\ call.time_period = "January"
  /\ result.kind = "listing"
  /\ {r.channel : r \in Rows} = {"Online"}
  /\ {result.entries[i].name : i \in 1..Len(result.entries)} = {"North", "South"}

\* C15: the checks of calculate come in one order and the first that fails
\* is the one reported: unknown metric, missing file, empty filtered set,
\* then the formula's own failure.
C15_FirstFailingCheckReported ==
  Called =>
    /\ ~Known => result.kind = "MetricNotFound"
    /\ (Known /\ ~file.exists) => result = [marker |-> FAIL, kind |-> "DataFileNotFound", path |-> DataPath]
    /\ (Filtered /\ call.time_period # "all" /\ Rows = {}) =>
         result = [marker |-> FAIL, kind |-> "NoDataForPeriod", period |-> call.time_period]
    /\ result.kind \in {"RequiresGroupBy", "NeedTwoMonths"} => Aggregated
    /\ result.kind = "NeedTwoMonths" =>
         (call.metric_name = "growth_rate" /\ Cardinality(YMs) < 2)
    /\ result.kind = "NoDataForPeriod" => (Known /\ file.exists)
    /\ result.kind = "DataFileNotFound" => Known

\* growth_rate for a period that is no period, on a missing file: the file
\* is what is reported
C15_Witness ==
  /\ Called /\ call.metric_name = "growth_rate" /\ call.time_period = "last week"
  /\ call.group_by = "bogus" /\ ~file.exists
  /\ result.kind = "DataFileNotFound"

\* C16: a growth_rate success is annotated "Positive growth" exactly when the
\* computed growth exceeds zero and "Negative growth" otherwise; a reported
\* minus sign never carries the positive annotation, and latest = previous
\* is reported as +0.00 with the negative annotation.
C16_TrendFollowsGrowth ==
  (Called /\ result.kind = "growth") =>
    LET L == result.latest_cents
        P == result.previous_cents
        g == result.growth
        positive == IF P # 0 THEN (L - P) * P > 0 ELSE L > 0
    IN /\ L = 100 * LatestSum /\ P = 100 * PreviousSum
       /\ result.trend \in {"Positive growth", "Negative growth"}
       /\ (result.trend = "Positive growth") = positive
       /\ g.sign = "-" => result.trend = "Negative growth"
       /\ result.trend = "Positive growth" => (g.sign = "+" /\ g.kind # "nan")
       /\ (L = P /\ P # 0) =>
            /\ g = [kind |-> "finite", sign |-> "+", hundredths |-> 0]
            /\ result.trend = "Negative growth"

\* two months of 100 each: +0.00%, annotated negative
C16_Witness ==
  /\ Called /\ call.metric_name = "growth_rate" /\ call.time_period = "all"
  /\ result.kind = "growth"
  /\ result.latest_cents = 10000 /\ result.previous_cents = 10000
  /\ result.growth = [kind |-> "finite", sign |-> "+", hundredths |-> 0]
  /\ result.trend = "Negative growth"

====
